---- MODULE Spec2Model ----
(***************************************************************************)
(* Model of app.py: the text cleaner, the HTML content extractor, the      *)
(* /fetch-content batch handler and the /ask-question handler with its     *)
(* answer post-processing.                                                 *)
(*                                                                         *)
(* Text is a sequence of one-character strings.  Markup that the           *)
(* post-processor inserts ("<h3>", "<br><br>", ...) is one sequence        *)
(* element: none of it contains a quote, a newline or a dash, so no later  *)
(* rewrite can match inside it.                                            *)
(***************************************************************************)
EXTENDS Integers, Sequences, FiniteSets, TLC

VARIABLES pc, body, idx, content, fetched, modelCalls, resp, arg, ret

vars == <<pc, body, idx, content, fetched, modelCalls, resp, arg, ret>>

(* ------------------------------ bounds -------------------------------- *)
MaxLen == 5
MaxNodes == 3
MaxUrls == 3
MaxLines == 3

(* --------------------------- python values ---------------------------- *)
(* A JSON or Python value carries its type as its first component.         *)
None == <<"None">>
Str(s) == <<"str", s>>
Number(n) == <<"int", n>>
List(l) == <<"list", l>>
Dict(items) == <<"dict", items>>
Absent == <<"absent">>
Kind(v) == v[1]
IsStr(v) == Kind(v) = "str"
IsNone(v) == Kind(v) = "None"

\* dict.get(key, default), field being the value under key or Absent
Get(field, default) == IF Kind(field) = "absent" THEN default ELSE field

RECURSIVE Join(_, _)
Join(parts, sep) ==
    IF parts = <<>> THEN <<>>
    ELSE IF Len(parts) = 1 THEN parts[1]
    ELSE parts[1] \o sep \o Join(Tail(parts), sep)

Take(s, n) == SubSeq(s, 1, IF Len(s) < n THEN Len(s) ELSE n)

RECURSIVE SeqsUpTo(_, _)
SeqsUpTo(S, n) ==
    IF n = 0 THEN {<<>>}
    ELSE LET shorter == SeqsUpTo(S, n - 1)
         IN  shorter \cup {Append(s, x) : s \in {t \in shorter : Len(t) = n - 1}, x \in S}

(* ------------------------ character classes --------------------------- *)
Whitespace == {" ", "\n", "\t"}
Digits == {"0", "1", "2", "3", "4", "5", "6", "7", "8", "9"}
WordChars == Digits \cup {"a", "b", "c", "d", "e", "u", "v", "q", "_"}
KeptPunct == {".", ",", "!", "?", "-"}

IsSpace(c) == c \in Whitespace
IsDigit(c) == c \in Digits

\* first position >= p of s that holds no whitespace (Len(s)+1 if none)
RECURSIVE RunEnd(_, _)
RunEnd(s, p) ==
    IF p > Len(s) \/ ~IsSpace(s[p]) THEN p ELSE RunEnd(s, p + 1)

\* str.strip()
RECURSIVE LStrip(_)
LStrip(s) == IF s # <<>> /\ IsSpace(Head(s)) THEN LStrip(Tail(s)) ELSE s

RECURSIVE RStrip(_)
RStrip(s) ==
    IF s # <<>> /\ IsSpace(s[Len(s)]) THEN RStrip(SubSeq(s, 1, Len(s) - 1)) ELSE s

Strip(s) == RStrip(LStrip(s))

(* ----------------------------- clean_text ----------------------------- *)
\* re.sub(r'\s+', ' ', text)
RECURSIVE CollapseFrom(_, _)
CollapseFrom(s, p) ==
    IF p > Len(s) THEN <<>>
    ELSE IF IsSpace(s[p]) THEN <<" ">> \o CollapseFrom(s, RunEnd(s, p))
    ELSE <<s[p]>> \o CollapseFrom(s, p + 1)

CollapseWhitespace(s) == CollapseFrom(s, 1)

\* the character class [\w\s.,!?-]
IsKept(c) == c \in WordChars \cup Whitespace \cup KeptPunct

\* re.sub(r'[^\w\s.,!?-]', '', text)
RemoveSpecial(s) == SelectSeq(s, IsKept)

clean_text(text) == Strip(RemoveSpecial(CollapseWhitespace(text)))

(* ------------------------- the parsed document ------------------------ *)
(* A document is the sequence of its elements in document order, each with *)
(* its nesting depth (an element's subtree is the run of deeper elements   *)
(* that follows it), its class attribute, the text directly inside it and  *)
(* its href attribute (None when it has none).                             *)
Descendants(doc, i) ==
    {j \in (i + 1)..Len(doc) : \A k \in (i + 1)..j : doc[k].depth > doc[i].depth}

Subtree(doc, i) == {i} \cup Descendants(doc, i)

\* the elements of doc whose index is in keep, in document order
RECURSIVE Restrict(_, _, _)
Restrict(doc, keep, p) ==
    IF p > Len(doc) THEN <<>>
    ELSE IF p \in keep THEN <<doc[p]>> \o Restrict(doc, keep, p + 1)
    ELSE Restrict(doc, keep, p + 1)

\* soup.find(...): index of the first element at or after p that is in the
\* set of matching elements, 0 when there is none
RECURSIVE FindFirst(_, _, _)
FindFirst(doc, matching, p) ==
    IF p > Len(doc) THEN 0
    ELSE IF p \in matching THEN p
    ELSE FindFirst(doc, matching, p + 1)

\* str.lower() on the letters class names use
Lower(c) ==
    CASE c = "C" -> "c" [] c = "M" -> "m" [] c = "A" -> "a" [] OTHER -> c

LowerAll(s) == [k \in 1..Len(s) |-> Lower(s[k])]

\* pattern.search(s) for a literal pattern
Contains(s, pat) ==
    \E k \in 0..(Len(s) - Len(pat)) : SubSeq(s, k + 1, k + Len(pat)) = pat

PatContent == <<"c", "o", "n", "t", "e", "n", "t">>
PatMain == <<"m", "a", "i", "n">>
PatArticle == <<"a", "r", "t", "i", "c", "l", "e">>

\* re.compile(r'content|main|article', re.I).search(cls)
ClassMatches(cls) ==
    LET low == LowerAll(cls)
    IN  Contains(low, PatContent) \/ Contains(low, PatMain) \/ Contains(low, PatArticle)

\* tag.get_text(separator=' ', strip=True) over the elements in region
RECURSIVE TextPieces(_, _, _)
TextPieces(doc, region, p) ==
    IF p > Len(doc) THEN <<>>
    ELSE IF p \in region /\ Strip(doc[p].text) # <<>>
         THEN <<Strip(doc[p].text)>> \o TextPieces(doc, region, p + 1)
    ELSE TextPieces(doc, region, p + 1)

GetText(doc, region) == Join(TextPieces(doc, region, 1), <<" ">>)

(* ------------------------- extract_main_content ----------------------- *)
UnwantedTags == {"header", "footer", "nav", "script", "style", "iframe", "form"}

\* a removal that drops the unwanted elements but leaves what is inside them
DecomposeShallow(doc) ==
    Restrict(doc, {k \in 1..Len(doc) : doc[k].tag \notin UnwantedTags}, 1)

\* for element in soup([...]): element.decompose()
Decompose(doc) ==
    LET gone == UNION {Subtree(doc, i) : i \in {k \in 1..Len(doc) : doc[k].tag \in UnwantedTags}}
    IN  Restrict(doc, (1..Len(doc)) \ gone, 1)

\* the elements find(name) and find(name, {'class': pattern}) look among
Named(doc, name) == {k \in 1..Len(doc) : doc[k].tag = name}
NamedWithClass(doc, name) == {k \in Named(doc, name) : ClassMatches(doc[k].cls)}

\* a selection that tries article before main
FindMainContentArticleFirst(doc) ==
    LET m == FindFirst(doc, Named(doc, "main"), 1)
        a == FindFirst(doc, Named(doc, "article"), 1)
        d == FindFirst(doc, NamedWithClass(doc, "div"), 1)
    IN  IF a # 0 THEN a ELSE IF m # 0 THEN m ELSE d

\* soup.find('main') or soup.find('article') or soup.find('div', {'class': ...})
FindMainContent(doc) ==
    LET m == FindFirst(doc, Named(doc, "main"), 1)
        a == FindFirst(doc, Named(doc, "article"), 1)
        d == FindFirst(doc, NamedWithClass(doc, "div"), 1)
    IN  IF m # 0 THEN m ELSE IF a # 0 THEN a ELSE d

\* the text extract_main_content returns for the document left after Decompose
MainText(rest) ==
    LET main_content == FindMainContent(rest)
    IN  IF main_content # 0 THEN GetText(rest, Subtree(rest, main_content))
        ELSE GetText(rest, 1..Len(rest))

(* ------------------------------ scrape_url ---------------------------- *)
LinkLimit == 5

\* urljoin(url, href): the reference resolved against the page's URL
UrlJoin(url, href) == [base |-> url, ref |-> href]

IsAnchor(n) == n.tag = "a" /\ ~IsNone(n.href)

\* soup.title.string if soup.title else ''
TitleOf(page) ==
    IF ~page.title.present THEN Str(<<>>)
    ELSE IF page.title.text = <<>> THEN None
    ELSE Str(page.title.text)

\* [urljoin(url, a.get('href')) for a in soup.find_all('a', href=True)]
LinksOf(url, rest) ==
    LET anchors == SelectSeq(rest, IsAnchor)
    IN  [k \in 1..Len(anchors) |-> UrlJoin(url, anchors[k].href[2])]

\* requests.get raised, or raise_for_status() did
FetchFails(out) == out.raised \/ out.status >= 400

scrape_url(url, out) ==
    IF FetchFails(out) THEN [error |-> <<url, out.status>>]
    ELSE LET rest == Decompose(out.page.nodes)
         IN  [title |-> TitleOf(out.page),
              content |-> Str(clean_text(MainText(rest))),
              links |-> Take(LinksOf(url, rest), LinkLimit)]

(* ----------------------- documents and fetch outcomes ------------------ *)
MarkerChars == <<"1", "2", "3", "4", "5", "6", "7", "8", "9">>
Marker(i) == <<MarkerChars[i]>>

ClsNone == <<>>
ClsContent == <<"C", "o", "n", "t", "e", "n", "t">>
ClsSidebar == <<"s", "i", "d", "e">>

Flavours ==
    { [tag |-> "main", cls |-> ClsNone], [tag |-> "article", cls |-> ClsNone],
      [tag |-> "div", cls |-> ClsContent], [tag |-> "div", cls |-> ClsSidebar],
      [tag |-> "section", cls |-> ClsContent], [tag |-> "nav", cls |-> ClsNone],
      [tag |-> "form", cls |-> ClsNone], [tag |-> "a", cls |-> ClsNone] }

\* the i-th element of a generated document: its text and href are unique to it
MkNode(f, dep, i) ==
    [tag |-> f.tag, cls |-> f.cls, depth |-> dep, text |-> Marker(i),
     href |-> IF f.tag = "a" THEN Str(Marker(i)) ELSE None]

\* the nesting depths of n elements in document order: the first is a top
\* element, each later one at most one level below its predecessor
DepthSeqs(n) ==
    {d \in [1..n -> 0..(n - 1)] :
        \A k \in 1..n : IF k = 1 THEN d[k] = 0 ELSE d[k] <= d[k - 1] + 1}

DocsOfLen(n) ==
    {[k \in 1..n |-> MkNode(fl[k], dp[k], k)] : fl \in [1..n -> Flavours], dp \in DepthSeqs(n)}

Titles ==
    { [present |-> FALSE, text |-> <<>>], [present |-> TRUE, text |-> <<>>],
      [present |-> TRUE, text |-> <<"a">>] }

NoPage == [title |-> [present |-> FALSE, text |-> <<>>], nodes |-> <<>>]

FailedFetches ==
    { [raised |-> TRUE, status |-> 0, page |-> NoPage],
      [raised |-> FALSE, status |-> 404, page |-> NoPage] }

(* -------------------- specification: scraping one page ---------------- *)
UrlA == <<"u">>
UrlB == <<"v">>

\* the pages a successful GET can deliver: every title with every document of
\* n elements
PagesOfLen(n) == [title : Titles, nodes : DocsOfLen(n)]

InitScrape ==
    /\ pc = "scrape"
    /\ \/ arg \in [url : {UrlA}, out : FailedFetches]
       \/ \E n \in 0..MaxNodes :
             arg \in [url : {UrlA},
                      out : [raised : {FALSE}, status : {200}, page : PagesOfLen(n)]]
    /\ ret = <<>>
    /\ body = [endpoint |-> "none"]
    /\ idx = 0
    /\ content = <<>>
    /\ fetched = <<>>
    /\ modelCalls = <<>>
    /\ resp = <<>>

Scrape ==
    /\ pc = "scrape"
    /\ ret' = scrape_url(arg.url, arg.out)
    /\ pc' = "done"
    /\ UNCHANGED <<body, idx, content, fetched, modelCalls, resp, arg>>

NextScrape == Scrape

SpecScrape == InitScrape /\ [][NextScrape]_vars

Scraped == pc = "done" /\ "error" \notin DOMAIN ret

(* ----------------------- answer post-processing ----------------------- *)
Bullet == "BULLET"

\* ^ under re.MULTILINE
AtLineStart(s, p) == p = 1 \/ s[p - 1] = "\n"

RECURSIVE DigitsEnd(_, _)
DigitsEnd(s, p) ==
    IF p > Len(s) \/ ~IsDigit(s[p]) THEN p ELSE DigitsEnd(s, p + 1)

RECURSIVE LineEnd(_, _)
LineEnd(s, p) ==
    IF p > Len(s) \/ s[p] = "\n" THEN p ELSE LineEnd(s, p + 1)

\* where group 2 of ^(\d+)\.\s+([^\n]+) starts for a match at p, 0 if no
\* match: \s+ is greedy and gives characters back only when nothing follows
HeadingTextStart(s, p) ==
    LET d == DigitsEnd(s, p)
        w == d + 1
        we == RunEnd(s, w)
        back == {j \in (w + 1)..Len(s) : s[j] # "\n"}
    IN  IF ~AtLineStart(s, p) \/ d = p \/ d > Len(s) THEN 0
        ELSE IF s[d] # "." \/ we = w THEN 0
        ELSE IF we <= Len(s) THEN we
        ELSE IF back = {} THEN 0
        ELSE CHOOSE j \in back : \A k \in back : k <= j

\* re.sub(r'^(\d+)\.\s+([^\n]+)', r'<h3>\1. \2</h3>', answer, flags=re.MULTILINE)
RECURSIVE HeadingsFrom(_, _)
HeadingsFrom(s, p) ==
    IF p > Len(s) THEN <<>>
    ELSE LET t == HeadingTextStart(s, p)
         IN  IF t # 0
             THEN <<"<h3>">> \o SubSeq(s, p, DigitsEnd(s, p) - 1) \o <<".", " ">>
                  \o SubSeq(s, t, LineEnd(s, t) - 1) \o <<"</h3>">>
                  \o HeadingsFrom(s, LineEnd(s, t))
             ELSE <<s[p]>> \o HeadingsFrom(s, p + 1)

\* answer.replace("\n\n", "<br><br>")
RECURSIVE BreaksFrom(_, _)
BreaksFrom(s, p) ==
    IF p > Len(s) THEN <<>>
    ELSE IF s[p] = "\n" /\ p < Len(s) /\ s[p + 1] = "\n"
         THEN <<"<br><br>">> \o BreaksFrom(s, p + 2)
    ELSE <<s[p]>> \o BreaksFrom(s, p + 1)

\* position of the first double quote at or after p, 0 if there is none
RECURSIVE NextQuote(_, _)
NextQuote(s, p) ==
    IF p > Len(s) THEN 0 ELSE IF s[p] = "\"" THEN p ELSE NextQuote(s, p + 1)

\* re.sub(r'"([^"]*)"', r'<b>"\1"</b>', answer)
RECURSIVE QuotesFrom(_, _)
QuotesFrom(s, p) ==
    IF p > Len(s) THEN <<>>
    ELSE IF s[p] = "\"" /\ NextQuote(s, p + 1) # 0
         THEN <<"<b>">> \o SubSeq(s, p, NextQuote(s, p + 1)) \o <<"</b>">>
              \o QuotesFrom(s, NextQuote(s, p + 1) + 1)
    ELSE <<s[p]>> \o QuotesFrom(s, p + 1)

\* re.sub(r'^-\s+', bullet + ' ', answer, flags=re.MULTILINE)
RECURSIVE BulletsFrom(_, _)
BulletsFrom(s, p) ==
    IF p > Len(s) THEN <<>>
    ELSE IF AtLineStart(s, p) /\ s[p] = "-" /\ p < Len(s) /\ IsSpace(s[p + 1])
         THEN <<Bullet, " ">> \o BulletsFrom(s, RunEnd(s, p + 1))
    ELSE <<s[p]>> \o BulletsFrom(s, p + 1)

\* the rewrites of the answer, in the order the handler applies them
PostProcess(text) ==
    LET answer == Strip(text)
        a1 == HeadingsFrom(answer, 1)
        a2 == BreaksFrom(a1, 1)
        a3 == QuotesFrom(a2, 1)
    IN  BulletsFrom(a3, 1)

(* ------------------- specification: the text cleaner ------------------ *)
CleanAlphabet == {"a", " ", "\n", "@", "-"}

InitClean ==
    /\ pc = "clean"
    /\ arg \in SeqsUpTo(CleanAlphabet, MaxLen)
    /\ ret = <<>>
    /\ body = [endpoint |-> "none"]
    /\ idx = 0
    /\ content = <<>>
    /\ fetched = <<>>
    /\ modelCalls = <<>>
    /\ resp = <<>>

CleanText ==
    /\ pc = "clean"
    /\ ret' = clean_text(arg)
    /\ pc' = "done"
    /\ UNCHANGED <<body, idx, content, fetched, modelCalls, resp, arg>>

NextClean == CleanText

SpecClean == InitClean /\ [][NextClean]_vars

\* C4: cleaning is idempotent: cleaning a cleaned text changes nothing.
CleanIdempotent == pc = "done" => clean_text(ret) = ret

(* ----------------------- requests, pages and replies ------------------- *)
Node(tag, cls, depth, text, href) ==
    [tag |-> tag, cls |-> cls, depth |-> depth, text |-> text, href |-> href]

\* a titled page: a nav with a link, then a main region with a link in it
PageArticle ==
    [title |-> [present |-> TRUE, text |-> <<"a">>],
     nodes |-> << Node("nav", ClsNone, 0, <<"1">>, None),
                  Node("a", ClsNone, 1, <<"2">>, Str(<<"2">>)),
                  Node("main", ClsNone, 0, <<"b">>, None),
                  Node("a", ClsNone, 1, <<"3">>, Str(<<"3">>)) >>]

\* a page whose title element is empty, with six links
PageLinks ==
    [title |-> [present |-> TRUE, text |-> <<>>],
     nodes |-> [k \in 1..(LinkLimit + 1) |-> Node("a", ClsNone, 0, Marker(k), Str(Marker(k)))]]

\* a page without a title element, its text holding a special character
PageBare ==
    [title |-> [present |-> FALSE, text |-> <<>>],
     nodes |-> << Node("div", ClsSidebar, 0, <<"d", " ", "@", " ", "e">>, None) >>]

SamplePages == {PageArticle, PageLinks, PageBare}

\* what one outbound GET can come back with
Outcomes ==
    FailedFetches \cup [raised : {FALSE}, status : {200}, page : SamplePages]

\* entries of a urls list: empty, blank, two URLs, and one that is no string
Entries == {Str(<<>>), Str(<<" ">>), Str(UrlA), Str(UrlB), Number(7)}

\* request bodies of /fetch-content; json tells whether the body parses to a
\* JSON object, to another JSON value, or not at all
FetchBodies ==
    [endpoint : {"fetch"}, json : {"invalid", "array"},
     urls : {Absent}, content : {Absent}, question : {Absent}]
    \cup
    [endpoint : {"fetch"}, json : {"object"},
     urls : {Absent, None} \cup {List(l) : l \in SeqsUpTo(Entries, MaxUrls)},
     content : {Absent}, question : {Absent}]

GoodRecord == [title |-> Str(<<"a">>), content |-> Str(<<"b">>), links |-> <<>>]
ErrorRecord == [error |-> <<UrlB, 404>>]

ContentMaps ==
    { Dict(<<>>), Dict(<< <<UrlA, GoodRecord>> >>),
      Dict(<< <<UrlA, GoodRecord>>, <<UrlB, ErrorRecord>> >>) }

Questions == {Str(<<>>), Str(<<" ">>), Str(<<"q">>), Str(<<" ", "q", "\n">>)}

AskBodies ==
    [endpoint : {"ask"}, json : {"invalid", "array"},
     urls : {Absent}, content : {Absent}, question : {Absent}]
    \cup
    [endpoint : {"ask"}, json : {"object"}, urls : {Absent},
     content : {Absent, None} \cup ContentMaps,
     question : {Absent, None} \cup Questions]

\* lines a model reply is made of
ReplyLines ==
    { <<"-", " ", "a">>, <<"1", ".", " ", "b">>, <<>>, <<"c">>,
      <<"\"", "c", "\"">>, <<"1", ".">>, <<" ">> }

ReplyTexts == {Join(ls, <<"\n">>) : ls \in SeqsUpTo(ReplyLines, MaxLines)}

\* what model.generate_content can come back with: an exception, a response
\* without text, or a response with text
Replies ==
    { [raised |-> TRUE, text |-> None], [raised |-> FALSE, text |-> None] }
    \cup [raised : {FALSE}, text : {Str(t) : t \in ReplyTexts}]

(* ------------------------- the two POST handlers ----------------------- *)
\* a python dict as the sequence of its <<key, value>> items in insertion order
DictKeys(d) == {d[k][1] : k \in 1..Len(d)}

\* d[key] = value
DictSet(d, key, value) ==
    IF key \in DictKeys(d)
    THEN [k \in 1..Len(d) |-> IF d[k][1] = key THEN <<key, value>> ELSE d[k]]
    ELSE Append(d, <<key, value>>)

\* jsonify(payload), status
Respond(payload, status) == Append(resp, [status |-> status, json |-> payload])

\* an exception handler that answers 400
RespondExceptionBadRequest == Respond([error |-> <<"exception">>], 400)

\* except Exception as e: return jsonify({"error": str(e)}), 500
RespondException == Respond([error |-> <<"exception">>], 500)

\* request.json raises on a body that is not JSON; .get raises when the JSON
\* value is not an object
BodyRaises == body.json # "object"

\* request.json.get('urls', [])
UrlsOf == Get(body.urls, List(<<>>))

\* a skip that tests the entry without trimming it
IsBlankUntrimmed(url) == url = <<>>

\* the skip of line 107: url.strip() is empty
IsBlank(url) == Strip(url) = <<>>

\* a loop that stores the error record and goes on
AbortsBatchNever(result) == FALSE

\* if 'error' in result
AbortsBatch(result) == "error" \in DOMAIN result

\* lines 98-105 of fetch_content; len(urls) raises on null
FetchContentBegin ==
    /\ pc = "fetch"
    /\ IF BodyRaises \/ IsNone(UrlsOf)
       THEN resp' = RespondException /\ pc' = "done"
       ELSE IF UrlsOf[2] = <<>>
       THEN resp' = Respond([error |-> <<"No URLs provided">>], 400) /\ pc' = "done"
       ELSE resp' = resp /\ pc' = "fetch_loop"
    /\ idx' = 1
    /\ content' = <<>>
    /\ UNCHANGED <<body, fetched, modelCalls, arg, ret>>

\* one iteration of the loop over urls; url.strip() raises on a non-string
FetchContentStep ==
    /\ pc = "fetch_loop"
    /\ idx <= Len(UrlsOf[2])
    /\ LET url == UrlsOf[2][idx]
       IN  IF ~IsStr(url)
           THEN /\ resp' = RespondException
                /\ pc' = "done"
                /\ UNCHANGED <<idx, content, fetched>>
           ELSE IF IsBlank(url[2])
           THEN /\ idx' = idx + 1
                /\ UNCHANGED <<pc, content, fetched, resp>>
           ELSE \E out \in Outcomes :
                  LET result == scrape_url(url[2], out)
                  IN  /\ fetched' = Append(fetched, [url |-> url[2], failed |-> FetchFails(out)])
                      /\ IF AbortsBatch(result)
                         THEN /\ resp' = Respond([error |-> result.error], 400)
                              /\ pc' = "done"
                              /\ UNCHANGED <<idx, content>>
                         ELSE /\ content' = DictSet(content, url[2], result)
                              /\ idx' = idx + 1
                              /\ UNCHANGED <<pc, resp>>
    /\ UNCHANGED <<body, modelCalls, arg, ret>>

\* the return after the loop
FetchContentReturn ==
    /\ pc = "fetch_loop"
    /\ idx > Len(UrlsOf[2])
    /\ resp' = Respond([content |-> content], 200)
    /\ pc' = "done"
    /\ UNCHANGED <<body, idx, content, fetched, modelCalls, arg, ret>>

ContentBudget == 1500

\* isinstance(data, dict) and 'title' in data and 'content' in data
HasTitleAndContent(data) == {"title", "content"} \subseteq DOMAIN data

\* the f-string block of one source
ContextPart(item) ==
    [source |-> item[1], title |-> item[2].title,
     content |-> Take(item[2].content[2], ContentBudget)]

\* the prompt: the question and the blocks of the usable sources
BuildPrompt(question, items) ==
    LET usable == SelectSeq(items, LAMBDA item : HasTitleAndContent(item[2]))
    IN  [question |-> question,
         context |-> [k \in 1..Len(usable) |-> ContextPart(usable[k])]]

\* data.get('question', '')
QuestionOf == Get(body.question, Str(<<>>))

\* data.get('content', {})
ContentOf == Get(body.content, Dict(<<>>))

\* if not content
ContentMissing == ContentOf[2] = <<>>

\* a question test that forgets to trim
QuestionMissingUntrimmed == QuestionOf[2] = <<>>

\* if not question, question being trimmed on line 129
QuestionMissing == Strip(QuestionOf[2]) = <<>>

\* lines 127-186 of ask_question; .strip() raises on a question that is no
\* string and len(content) on null
AskQuestionBegin ==
    /\ pc = "ask"
    /\ IF BodyRaises \/ ~IsStr(QuestionOf) \/ IsNone(ContentOf)
       THEN resp' = RespondException /\ pc' = "done" /\ arg' = arg
       ELSE IF ContentMissing
       THEN /\ resp' = Respond([error |-> <<"No content provided">>], 400)
            /\ pc' = "done" /\ arg' = arg
       ELSE IF QuestionMissing
       THEN /\ resp' = Respond([error |-> <<"No question provided">>], 400)
            /\ pc' = "done" /\ arg' = arg
       ELSE /\ arg' = BuildPrompt(Strip(QuestionOf[2]), ContentOf[2])
            /\ pc' = "ask_call" /\ resp' = resp
    /\ UNCHANGED <<body, idx, content, fetched, modelCalls, ret>>

\* if response and response.text
HasText(reply) == IsStr(reply.text) /\ reply.text[2] # <<>>

\* lines 189-205 of ask_question
AskQuestionCall ==
    /\ pc = "ask_call"
    /\ \E reply \in Replies :
         /\ modelCalls' = Append(modelCalls, arg)
         /\ ret' = reply
         /\ IF reply.raised THEN resp' = RespondException
            ELSE IF HasText(reply)
            THEN resp' = Respond([answer |-> PostProcess(reply.text[2])], 200)
            ELSE resp' = Respond([error |-> <<"No response generated">>], 500)
    /\ pc' = "done"
    /\ UNCHANGED <<body, idx, content, fetched, arg>>

(* ----------------------- specification: the server --------------------- *)
Init ==
    /\ body \in FetchBodies \cup AskBodies
    /\ pc = body.endpoint
    /\ idx = 0
    /\ content = <<>>
    /\ fetched = <<>>
    /\ modelCalls = <<>>
    /\ resp = <<>>
    /\ arg = <<>>
    /\ ret = <<>>

Next ==
    \/ FetchContentBegin
    \/ FetchContentStep
    \/ FetchContentReturn
    \/ AskQuestionBegin
    \/ AskQuestionCall

Spec == Init /\ [][Next]_vars

(* ------------------------------- claims -------------------------------- *)
FetchRequest == body.endpoint = "fetch"
AskRequest == body.endpoint = "ask"
Responded == pc = "done" /\ Len(resp) = 1
IsError(r) == "error" \in DOMAIN r.json

\* the number of positions of s that hold x
RECURSIVE CountOf(_, _)
CountOf(s, x) ==
    IF s = <<>> THEN 0
    ELSE (IF Head(s) = x THEN 1 ELSE 0) + CountOf(Tail(s), x)

\* C1: a failed scrape is the last fetch of its request, and the request
\* ends with an error response that carries no content map.
FailFastBatch ==
    \A k \in 1..Len(fetched) :
        fetched[k].failed =>
            /\ k = Len(fetched)
            /\ Responded
            /\ IsError(resp[1])
            /\ "content" \notin DOMAIN resp[1].json

\* a batch that failed on its second fetch, with a record already collected
\* and a further URL still waiting in the list
FailFastWitness ==
    /\ pc = "done"
    /\ Len(fetched) = 2
    /\ fetched[2].failed
    /\ content # <<>>
    /\ idx < Len(UrlsOf[2])
    /\ IsStr(UrlsOf[2][idx + 1])
    /\ Strip(UrlsOf[2][idx + 1][2]) # <<>>
    /\ resp[1].status = 400

\* the request is a QuestionRequest: a JSON object whose content, when
\* present, is a map and whose question, when present, is a string
WellTypedAsk ==
    /\ AskRequest
    /\ body.json = "object"
    /\ Kind(Get(body.content, Dict(<<>>))) = "dict"
    /\ IsStr(Get(body.question, Str(<<>>)))

EmptyContentOrQuestion ==
    \/ Get(body.content, Dict(<<>>))[2] = <<>>
    \/ Strip(Get(body.question, Str(<<>>))[2]) = <<>>

\* C2: a question request with an empty content map or a blank question is
\* answered 400 with an error and never reaches the model; the model is
\* called only for requests that pass both validations.
AskValidatesBeforeModel ==
    /\ (WellTypedAsk /\ EmptyContentOrQuestion) =>
          /\ modelCalls = <<>>
          /\ pc # "ask_call"
          /\ pc = "done" => (Len(resp) = 1 /\ resp[1].status = 400 /\ IsError(resp[1]))
    /\ (modelCalls # <<>> \/ pc = "ask_call") => (WellTypedAsk /\ ~EmptyContentOrQuestion)

\* a request with content and a whitespace-only question, answered 400
AskValidationWitness ==
    /\ WellTypedAsk
    /\ Kind(body.content) = "dict" /\ body.content[2] # <<>>
    /\ body.question = Str(<<" ">>)
    /\ pc = "done"
    /\ resp[1].status = 400
    /\ modelCalls = <<>>

\* the causes of a failing request, read off the request and what happened
FetchValidationCause ==
    FetchRequest /\ body.json = "object" /\ body.urls \in {Absent, List(<<>>)}

FetchErrorCause == fetched # <<>> /\ fetched[Len(fetched)].failed

AskValidationCause == WellTypedAsk /\ EmptyContentOrQuestion

ModelErrorCause ==
    modelCalls # <<>> /\ (ret.raised \/ IsNone(ret.text) \/ ret.text = Str(<<>>))

InternalCause ==
    \/ body.json # "object"
    \/ IsNone(body.urls)
    \/ IsNone(body.content)
    \/ IsNone(body.question)
    \/ /\ FetchRequest /\ Kind(body.urls) = "list"
       /\ idx \in 1..Len(body.urls[2])
       /\ ~IsStr(body.urls[2][idx])

\* C3: a request ends with exactly one response and the handler can always
\* go on until it has responded; a response is an error exactly when its
\* status is not 200; validation and fetch errors give 400, model and
\* internal errors give 500.
OneJsonResponse ==
    /\ Len(resp) = (IF pc = "done" THEN 1 ELSE 0)
    /\ pc # "done" => ENABLED Next
    /\ pc = "done" =>
         LET r == resp[1]
         IN  /\ r.status \in {200, 400, 500}
             /\ IsError(r) <=> r.status # 200
             /\ r.status = 400 <=>
                  (FetchValidationCause \/ FetchErrorCause \/ AskValidationCause)
             /\ r.status = 500 <=> (ModelErrorCause \/ InternalCause)

\* a batch that scraped one page and then met an entry that is no string
OneJsonResponseWitness ==
    /\ pc = "done"
    /\ FetchRequest
    /\ Len(fetched) = 1 /\ ~fetched[1].failed
    /\ resp[1].status = 500
    /\ IsError(resp[1])

\* the lines of a text
RECURSIVE SplitLines(_)
SplitLines(s) ==
    LET e == LineEnd(s, 1)
    IN  IF e > Len(s) THEN <<s>>
        ELSE <<SubSeq(s, 1, e - 1)>> \o SplitLines(SubSeq(s, e + 1, Len(s)))

IsDashLine(l) == Len(l) >= 2 /\ l[1] = "-" /\ l[2] = " "

Answered == Responded /\ AskRequest /\ "answer" \in DOMAIN resp[1].json

\* C7: every line of the model text that begins with "- " is introduced by
\* the bullet glyph in the answer, and no "- " is left.
DashLinesBecomeBullets ==
    Answered =>
        LET answer == resp[1].json.answer
            dashes == Len(SelectSeq(SplitLines(Strip(ret.text[2])), IsDashLine))
        IN  /\ CountOf(answer, Bullet) >= dashes
            /\ ~Contains(answer, <<"-", " ">>)

\* C8: every record of a returned content map has a string title, a string
\* content and at most five links, and none is an error record.
ContentMapShape ==
    (Responded /\ FetchRequest /\ "content" \in DOMAIN resp[1].json) =>
        \A k \in 1..Len(resp[1].json.content) :
            LET record == resp[1].json.content[k][2]
            IN  /\ "error" \notin DOMAIN record
                /\ IsStr(record.title)
                /\ IsStr(record.content)
                /\ Len(record.links) <= LinkLimit

\* the request body carries a list of strings
UrlListGiven ==
    /\ FetchRequest /\ body.json = "object" /\ Kind(body.urls) = "list"
    /\ \A k \in 1..Len(body.urls[2]) : IsStr(body.urls[2][k])

NonBlankEntry(e) == Strip(e[2]) # <<>>

\* C9: the fetches of a batch are the non-blank entries of the list in input
\* order, each once, cut after the first failing one; when none fails the
\* response is a success whose content map has the non-blank entries as keys.
FetchTrace ==
    (UrlListGiven /\ body.urls[2] # <<>>) =>
        LET wanted == SelectSeq(body.urls[2], NonBlankEntry)
            n == Len(fetched)
        IN  /\ n <= Len(wanted)
            /\ \A k \in 1..n : fetched[k].url = wanted[k][2]
            /\ \A k \in 1..(n - 1) : ~fetched[k].failed
            /\ pc = "done" =>
                 /\ Len(resp) = 1
                 /\ n < Len(wanted) => (n >= 1 /\ fetched[n].failed)
                 /\ IF n >= 1 /\ fetched[n].failed
                    THEN IsError(resp[1])
                    ELSE /\ resp[1].status = 200
                         /\ "content" \in DOMAIN resp[1].json
                         /\ DictKeys(resp[1].json.content) = {wanted[k][2] : k \in 1..n}

\* a list with a blank entry among two URLs, both fetched, answered 200
FetchTraceWitness ==
    /\ UrlListGiven
    /\ pc = "done"
    /\ Len(body.urls[2]) = 3
    /\ \E k \in 1..3 : ~NonBlankEntry(body.urls[2][k])
    /\ Len(fetched) = 2
    /\ resp[1].status = 200
    /\ Len(resp[1].json.content) = 2

\* C10: a success response of ask-question carries a non-empty answer, and a
\* model reply with no text, or none once trimmed, is answered 500.
AnswerNeverEmpty ==
    (Responded /\ AskRequest /\ modelCalls # <<>>) =>
        /\ "answer" \in DOMAIN resp[1].json => resp[1].json.answer # <<>>
        /\ (~ret.raised /\ (IsNone(ret.text) \/ Strip(ret.text[2]) = <<>>)) =>
              (resp[1].status = 500 /\ IsError(resp[1]))

\* the document of the scraped page, and what is left of it after the
\* unwanted elements are removed
PageNodes == arg.out.page.nodes
Remaining == Decompose(PageNodes)

MinOf(S) == CHOOSE i \in S : \A j \in S : i <= j
WithTag(doc, t) == {i \in 1..Len(doc) : doc[i].tag = t}
WithClass(doc) == {i \in 1..Len(doc) : ClassMatches(doc[i].cls)}

\* the region the priority list selects, third being the elements its third
\* rule may pick
RegionByPriority(doc, third) ==
    IF WithTag(doc, "main") # {} THEN Subtree(doc, MinOf(WithTag(doc, "main")))
    ELSE IF WithTag(doc, "article") # {} THEN Subtree(doc, MinOf(WithTag(doc, "article")))
    ELSE IF third # {} THEN Subtree(doc, MinOf(third))
    ELSE 1..Len(doc)

\* C5 as stated: main, else article, else the first element of any tag whose
\* class matches, else the whole remaining document.
MainContentPriorityAnyTag ==
    Scraped =>
        ret.content =
            Str(clean_text(GetText(Remaining, RegionByPriority(Remaining, WithClass(Remaining)))))

\* C5 amended: the third rule picks the first div whose class matches.
MainContentPriorityDiv ==
    Scraped =>
        ret.content =
            Str(clean_text(GetText(Remaining,
                    RegionByPriority(Remaining, WithClass(Remaining) \cap WithTag(Remaining, "div")))))

\* a page without main or article where a section with a matching class
\* comes before a div with a matching class: the div's text is the content
MainContentWitness ==
    /\ Scraped
    /\ Len(PageNodes) = 3
    /\ PageNodes[1].tag = "section" /\ ClassMatches(PageNodes[1].cls)
    /\ PageNodes[2].tag = "a" /\ PageNodes[2].depth = 1
    /\ PageNodes[3].tag = "div" /\ ClassMatches(PageNodes[3].cls)
    /\ PageNodes[3].depth = 0
    /\ ret.content = Str(PageNodes[3].text)

\* the element is an unwanted element or lies inside one
InUnwanted(doc, j) ==
    \E i \in 1..j : doc[i].tag \in UnwantedTags /\ j \in Subtree(doc, i)

\* C6: the text and the href of an element that is, or lies inside, a header,
\* footer, nav, script, style, iframe or form never show up in the content or
\* the links.
UnwantedNeverExtracted ==
    Scraped =>
        \A j \in 1..Len(PageNodes) :
            InUnwanted(PageNodes, j) =>
                /\ ~Contains(ret.content[2], PageNodes[j].text)
                /\ \A l \in 1..Len(ret.links) :
                       IsStr(PageNodes[j].href) => ret.links[l].ref # PageNodes[j].href[2]

\* a main region that holds a nav that holds a link: only main's own text
\* is extracted and no link is returned
UnwantedWitness ==
    /\ Scraped
    /\ Len(PageNodes) = 3
    /\ PageNodes[1].tag = "main"
    /\ PageNodes[2].tag = "nav" /\ PageNodes[2].depth = 1
    /\ PageNodes[3].tag = "a" /\ PageNodes[3].depth = 2
    /\ ret.content = Str(PageNodes[1].text)
    /\ ret.links = <<>>

====
